---- MODULE Spec2Model ----
(***************************************************************************)
(* LaborGrow API (src/main.py, src/admin.py).                              *)
(*                                                                         *)
(* Each handler has its own specification over the same variables:         *)
(*   Spec, FairSpec   post_job with _build_job_data, _strip_unknown_column *)
(*   SpecApply        apply_to_job, two concurrent requests                *)
(*   SpecApplicants   get_job_applicants                                   *)
(*   SpecAdmin        the admin routes behind require_admin                *)
(*   SpecDeleteJob    admin_delete_job beside apply_to_job requests        *)
(*   SpecRegister     register_user                                        *)
(*   SpecNearby       get_nearby_jobs                                      *)
(* The variables of the handlers a specification does not run stay at      *)
(* their idle values.  The store (Supabase), its auth backend and the      *)
(* geocoder (Google Maps) are the environment: every reply they can give   *)
(* is a nondeterministic choice of the action that makes the call.         *)
(*                                                                         *)
(* Representation                                                          *)
(*   Optional value : None == << >>, a present value x is << x >>.         *)
(*   dict           : a function from its key set to values; the insertion *)
(*                    order of the keys is KeyOrder.                       *)
(*   error text     : str(e) as a sequence of tokens.  Lit(s) is the       *)
(*                    literal text s, Quoted(n) is the text 'n' (n between *)
(*                    single quotes).  Text is the concatenation of the    *)
(*                    tokens separated by one space, so                    *)
(*                    << CNF, Quoted("lat"), COLUMN >> is                  *)
(*                    "Could not find the 'lat' column".                   *)
(***************************************************************************)
EXTENDS Integers, Sequences, FiniteSets, TLC

VARIABLES
    job,            \* the validated JobCreate payload of the request
    user,           \* current_user.id, from get_current_user
    pc,             \* position of the handler: "start", "loop", "done"
    target_lat,     \* main.py:629
    target_lng,     \* main.py:630
    geocode_calls,  \* number of gmaps.geocode calls made
    job_data,       \* main.py:643, the candidate record
    last_error,     \* main.py:644
    attempt,        \* loop variable of `for attempt in range(15)`
    calls,          \* number of supabase insert calls made
    sent,           \* the record carried by the most recent insert call
    reply,          \* the store's answer to the most recent insert call
    strips,         \* number of replies so far that named a key of job_data
    named,          \* the keys of the record that the replies so far named
    response,       \* the HTTP response of the request
    jobs            \* rows the store accepted into table "jobs"

VARIABLES
    applications,   \* rows of table job_applications
    ap,             \* apply_to_job: the state of each request
    ga,             \* get_job_applicants: the state of the request
    adm,            \* an admin route: the state of the request
    auth_users,     \* accounts of the auth backend
    employers,      \* rows of table employers
    employees,      \* rows of table employees
    reg,            \* register_user: the state of the request
    nb              \* get_nearby_jobs: the state of the request

\* the variables post_job does not touch
otherVars == << applications, ap, ga, adm, auth_users, employers, employees, reg, nb >>

\* the variables of post_job but the jobs table
postJobVars == << job, user, pc, target_lat, target_lng, geocode_calls, job_data,
                  last_error, attempt, calls, sent, reply, strips, named, response >>

vars == << postJobVars, jobs, otherVars >>

None == << >>

Some(x) == << x >>

----------------------------------------------------------------------------
(* Constants of the code *)

\* a ceiling of one more attempt
MaxAttemptsPlusOne == 15 + 1

\* main.py:646  `for attempt in range(15)`
MaxAttempts == 15

\* main.py:721-738, in dict insertion order
BaseKeyOrder ==
    << "employer_id", "title", "openings", "job_city", "total_experience",
       "salary_min", "salary_max", "offers_bonus", "required_skills",
       "company_name", "contact_person", "phone_number", "contact_email",
       "email", "hiring_speed", "hiring_frequency" >>

\* main.py:741-746, in dict insertion order
GeoKeyOrder == << "lat_long", "lat", "lng", "latitude", "longitude", "location" >>

KeyOrder == BaseKeyOrder \o GeoKeyOrder

SeqRange(s) == { s[i] : i \in 1..Len(s) }

BaseColumns == SeqRange(BaseKeyOrder)

GeoColumns == SeqRange(GeoKeyOrder)

----------------------------------------------------------------------------
(* Error text *)

Lit(s) == [t |-> "lit", v |-> s]

Quoted(n) == [t |-> "quoted", v |-> n]

PGRST204 == Lit("PGRST204")

CNF == Lit("Could not find the")

COLUMN == Lit("column")

\* names between quotes that \w+ does not match (they contain a space)
NonWordNames == { "lat long" }

\* main.py:665  `"PGRST204" in err or "Could not find the" in err`
IsSchemaMismatch(err) ==
    \/ \E i \in 1..Len(err) : err[i] = PGRST204
    \/ \E i \in 1..Len(err) : err[i] = CNF

\* positions where  Could not find the '(\w+)' column  matches
MatchPositions(err) ==
    { i \in 1..Len(err) :
        /\ i + 2 <= Len(err)
        /\ err[i] = CNF
        /\ err[i+1].t = "quoted"
        /\ err[i+1].v \notin NonWordNames
        /\ err[i+2] = COLUMN }

Min(S) == CHOOSE x \in S : \A y \in S : x <= y

\* main.py:752  re.search: the leftmost match, None when there is none
re_search(err) ==
    IF MatchPositions(err) = {} THEN None
    ELSE Some(err[Min(MatchPositions(err)) + 1].v)

\* the filter of main.py:756 with its test inverted (k == bad)
OnlyKey(data, bad) == [k \in DOMAIN data \cap {bad} |-> data[k]]

\* a dict without the key bad (main.py:756)
WithoutKey(data, bad) == [k \in DOMAIN data \ {bad} |-> data[k]]

\* main.py:756 with a substring test (bad in k) instead of k != bad: naming
\* "lat" also drops "lat_long" and "latitude", naming "email" also drops
\* "contact_email"; no other key contains another
StripBySubstring(data, error_msg) ==
    LET m    == re_search(error_msg)
        hits == IF m = None THEN {}
                ELSE IF m[1] = "lat" THEN { "lat", "lat_long", "latitude" }
                ELSE IF m[1] = "email" THEN { "email", "contact_email" }
                ELSE { m[1] }
    IN  [k \in DOMAIN data \ hits |-> data[k]]

\* main.py:750-757
_strip_unknown_column(data, error_msg) ==
    LET m == re_search(error_msg)
    IN  IF m # None THEN WithoutKey(data, m[1]) ELSE data

----------------------------------------------------------------------------
(* Field normalizer *)

\* main.py:740  f"SRID=4326;POINT({lng} {lat})"
Wkt(lat, lng) == << "SRID=4326;POINT", lng, lat >>

\* main.py:721-738
BaseData(j, employer_id) ==
    [k \in BaseColumns |->
        CASE k = "employer_id"      -> employer_id
          [] k = "title"            -> j.title
          [] k = "openings"         -> j.openings
          [] k = "job_city"         -> j.job_city
          [] k = "total_experience" -> j.total_experience
          [] k = "salary_min"       -> j.salary_min
          [] k = "salary_max"       -> j.salary_max
          [] k = "offers_bonus"     -> j.offers_bonus
          [] k = "required_skills"  -> j.required_skills
          [] k = "company_name"     -> j.company_name
          [] k = "contact_person"   -> j.contact_person
          [] k = "phone_number"     -> j.phone_number
          [] k = "contact_email"    -> j.email
          [] k = "email"            -> j.email
          [] k = "hiring_speed"     -> j.hiring_speed
          [] k = "hiring_frequency" -> j.hiring_frequency]

\* main.py:741-746
GeoData(lat, lng) ==
    [k \in GeoColumns |->
        CASE k = "lat_long"  -> Wkt(lat, lng)
          [] k = "lat"       -> lat
          [] k = "lng"       -> lng
          [] k = "latitude"  -> lat
          [] k = "longitude" -> lng
          [] k = "location"  -> Wkt(lat, lng)]

\* main.py:739 with a truthiness test (if lat and lng): 0 counts as absent
BuildTruthy(j, employer_id, lat, lng) ==
    IF lat \notin { None, Some(0) } /\ lng \notin { None, Some(0) }
    THEN BaseData(j, employer_id) @@ GeoData(lat[1], lng[1])
    ELSE BaseData(j, employer_id)

\* main.py:716-747
_build_job_data(j, employer_id, lat, lng) ==
    IF lat # None /\ lng # None
    THEN BaseData(j, employer_id) @@ GeoData(lat[1], lng[1])
    ELSE BaseData(j, employer_id)

----------------------------------------------------------------------------
(* Responses *)

\* fastapi HTTPException(status_code, detail); detail is a fixed text
\* followed by an interpolated value (None when nothing is interpolated)
HTTPException(status_code, text, err) ==
    [status |-> status_code, detail |-> [text |-> text, err |-> err]]

NoResponse == [status |-> 0]

\* main.py:654 reporting the loop index instead of attempt + 1
SuccessResponseIndex(job_id, att) ==
    [status |-> 201,
     body   |-> [status |-> "success", job_id |-> job_id, attempts |-> att]]

\* main.py:654, under status_code=201 of the route (main.py:614)
SuccessResponse(job_id, att) ==
    [status |-> 201,
     body   |-> [status |-> "success", job_id |-> job_id, attempts |-> att + 1]]

\* main.py:656
NoDataResponse == HTTPException(500, "Insert returned no data.", None)

\* main.py:668-671
AllStrippedResponse ==
    HTTPException(500, "All columns stripped - check jobs table schema.", None)

\* main.py:674 without the interpolated error
FatalResponseBare(err) == HTTPException(400, "Database error: ", None)

\* main.py:674
FatalResponse(err) == HTTPException(400, "Database error: ", Some(err))

\* main.py:676-679 raised as a server error
RetriesExhaustedAs500(last) ==
    HTTPException(500, "Insert failed after 15 attempts. Last error: ", last)

\* main.py:676-679
RetriesExhaustedResponse(last) ==
    HTTPException(400, "Insert failed after 15 attempts. Last error: ", last)

\* main.py:662 keeping the first error (last_error = last_error or err)
KeepFirstError(old, err) == IF old = None THEN Some(err) ELSE old

\* main.py:661-662  err = str(e); last_error = err
UpdateLastError(old, err) == Some(err)

\* range(16)
RangeOneMore(att) == att + 1 < MaxAttempts + 1

\* main.py:646  range(15) has a value after att
RangeHasNext(att) == att + 1 < MaxAttempts

\* main.py:652 reading another column of the returned row
GetIdWrongKey(row) ==
    IF "employer_id" \in DOMAIN row THEN Some(row["employer_id"]) ELSE None

\* main.py:652  res.data[0].get("id")
GetId(row) == IF "id" \in DOMAIN row THEN Some(row["id"]) ELSE None

----------------------------------------------------------------------------
(* Environment: inputs of a request and replies of the collaborators *)

Users == { "u1", "u2" }

Coords == { None, Some(0) }

Cities == { "", "Pune" }

JobOf(city, lat, lng) ==
    [title            |-> "Welder",
     openings         |-> 2,
     job_city         |-> city,
     total_experience |-> "2 years",
     salary_min       |-> 100,
     salary_max       |-> 200,
     offers_bonus     |-> FALSE,
     required_skills  |-> << "welding" >>,
     company_name     |-> "Acme",
     contact_person   |-> "Asha",
     phone_number     |-> "555",
     email            |-> "hr@acme.test",
     hiring_speed     |-> "fast",
     hiring_frequency |-> "monthly",
     lat              |-> lat,
     lng              |-> lng]

Jobs == { JobOf(c, la, ln) : c \in Cities, la \in Coords, ln \in Coords }

\* gmaps.geocode: raises, returns [], or returns a list with a location
GeoReplies ==
    { [kind |-> "raise"], [kind |-> "empty"],
      [kind |-> "found", lat |-> 18, lng |-> 73] }

\* the keys of data in insertion order
KeysInOrder(data) == SelectSeq(KeyOrder, LAMBDA k : k \in DOMAIN data)

FirstKey(data) == Head(KeysInOrder(data))

LastKey(data) == KeysInOrder(data)[Len(KeysInOrder(data))]

\* a column name that _build_job_data never produces
GhostColumn == "geom"

\* the PostgREST rejection of column c
UnknownColumn(c) == << PGRST204, CNF, Quoted(c), COLUMN, Lit("of 'jobs' in the schema cache") >>

\* error texts the store may raise for an insert of data
StoreErrors(data) ==
    { UnknownColumn(FirstKey(data)),
      UnknownColumn(LastKey(data)),
      UnknownColumn(GhostColumn),
      << CNF, Quoted(FirstKey(data)), COLUMN, CNF, Quoted(LastKey(data)), COLUMN >>,
      << PGRST204, CNF, Quoted("lat long"), COLUMN, CNF, Quoted(LastKey(data)), COLUMN >>,
      << PGRST204, Lit("schema cache is stale") >>,
      << Quoted(FirstKey(data)), COLUMN, Lit("violates not-null constraint") >>,
      << Lit("23505 duplicate key value") >> }

NewId == "job-1"

\* answers of  supabase.table("jobs").insert(data).execute()
StoreReplies(data) ==
    { [kind |-> "ok", data |-> << data @@ ("id" :> NewId) >>],
      [kind |-> "ok", data |-> << data >>],
      [kind |-> "ok", data |-> << >>] }
    \cup { [kind |-> "raise", err |-> e] : e \in StoreErrors(data) }

NoReply == [kind |-> "none"]

----------------------------------------------------------------------------
(* post_job *)

Idle == [pc |-> "idle"]

\* no request of another handler is running and the other tables are empty
IdleOthers ==
    /\ applications = {}
    /\ ap = Idle
    /\ ga = Idle
    /\ adm = Idle
    /\ auth_users = {}
    /\ employers = {}
    /\ employees = {}
    /\ reg = Idle
    /\ nb = Idle

Init ==
    /\ IdleOthers
    /\ job \in Jobs
    /\ user \in Users
    /\ pc = "start"
    /\ target_lat = None
    /\ target_lng = None
    /\ geocode_calls = 0
    /\ job_data = << >>
    /\ last_error = None
    /\ attempt = 0
    /\ calls = 0
    /\ sent = << >>
    /\ reply = NoReply
    /\ strips = 0
    /\ named = {}
    /\ response = NoResponse
    /\ jobs = {}

\* main.py:632 without the test of the coordinates
NeedsGeocodeAlways(j) == j.job_city # ""

\* main.py:632  `job.job_city and (target_lat is None or target_lng is None)`
NeedsGeocode(j) == j.job_city # "" /\ (j.lat = None \/ j.lng = None)

\* main.py:629-644: coordinates, optional geocoding, _build_job_data
PostJobBuild ==
    /\ pc = "start"
    /\ \E geo \in GeoReplies :
         LET found == NeedsGeocode(job) /\ geo.kind = "found"
             lat   == IF found THEN Some(geo.lat) ELSE job.lat
             lng   == IF found THEN Some(geo.lng) ELSE job.lng
         IN  /\ target_lat' = lat
             /\ target_lng' = lng
             /\ geocode_calls' = IF NeedsGeocode(job) THEN geocode_calls + 1
                                 ELSE geocode_calls
             /\ job_data' = _build_job_data(job, user, lat, lng)
    /\ last_error' = None
    /\ pc' = "loop"
    /\ UNCHANGED << job, user, attempt, calls, sent, reply, strips, named,
                    response, jobs >>
    /\ UNCHANGED otherVars

\* the reply names, in the pattern of main.py:752, a key of data
NamesPresentKey(data, err) ==
    /\ IsSchemaMismatch(err)
    /\ re_search(err) # None
    /\ re_search(err)[1] \in DOMAIN data

\* main.py:646-679: one iteration of the insert loop, and the raise after
\* the loop when this was the last iteration
InsertAttempt ==
    /\ pc = "loop"
    /\ \E r \in StoreReplies(job_data) :
         /\ reply' = r
         /\ sent' = job_data
         /\ calls' = calls + 1
         /\ IF r.kind = "ok"
            THEN /\ jobs' = jobs \cup { job_data }
                 /\ response' = IF Len(r.data) > 0
                                THEN SuccessResponse(GetId(r.data[1]), attempt)
                                ELSE NoDataResponse
                 /\ pc' = "done"
                 /\ UNCHANGED << job_data, last_error, attempt, strips, named >>
            ELSE /\ jobs' = jobs
                 /\ last_error' = UpdateLastError(last_error, r.err)
                 /\ strips' = IF NamesPresentKey(job_data, r.err) THEN strips + 1
                              ELSE strips
                 /\ named' = IF NamesPresentKey(job_data, r.err)
                              THEN named \cup { re_search(r.err)[1] }
                              ELSE named
                 /\ IF IsSchemaMismatch(r.err)
                    THEN LET slim == _strip_unknown_column(job_data, r.err)
                         IN  /\ job_data' = slim
                             /\ IF DOMAIN slim = {}
                                THEN /\ response' = AllStrippedResponse
                                     /\ pc' = "done"
                                     /\ attempt' = attempt
                                ELSE IF RangeHasNext(attempt)
                                THEN /\ response' = response
                                     /\ pc' = "loop"
                                     /\ attempt' = attempt + 1
                                ELSE /\ response' = RetriesExhaustedResponse(last_error')
                                     /\ pc' = "done"
                                     /\ attempt' = attempt
                    ELSE /\ response' = FatalResponse(r.err)
                         /\ pc' = "done"
                         /\ UNCHANGED << job_data, attempt >>
    /\ UNCHANGED << job, user, target_lat, target_lng, geocode_calls >>
    /\ UNCHANGED otherVars

Next == PostJobBuild \/ InsertAttempt

Spec == Init /\ [][Next]_vars

\* the handler runs to completion: no step of it waits on anything but the
\* collaborators' replies
FairSpec == Spec /\ WF_vars(Next)

----------------------------------------------------------------------------
(* Properties of post_job *)

\* what _build_job_data returned for this request
Built == _build_job_data(job, user, target_lat, target_lng)

Size(data) == Cardinality(DOMAIN data)

Succeeded == response.status = 201

\* the most recent insert was rejected as a schema mismatch
MismatchReply == reply.kind = "raise" /\ IsSchemaMismatch(reply.err)

\* every insert made so far was answered by an unknown-column rejection that
\* named a column still present in the record
OnlyRejections == pc # "start" /\ strips = calls

\* C1 as stated: after N-1 unknown-column rejections, each naming a different
\* column still present in the N-field record, post_job makes the next insert
\* with the one surviving field, and on its acceptance reports attempts = N.
C1_Original ==
    /\ (OnlyRejections /\ calls = Size(Built) - 1)
          => (pc = "loop" /\ Size(job_data) = 1)
    /\ (Succeeded /\ strips = calls - 1 /\ calls = Size(Built))
          => (response.body.attempts = Size(Built) /\ Size(sent) = 1)

\* C1 amended: when the first k inserts (k <= 14) are answered by unknown-column
\* rejections, each naming a column still present, and the next insert is
\* accepted, post_job reports success with attempts = k + 1, and the accepted
\* insert carried exactly the N - k fields of the built record that were not
\* named, with their built values.
C1_SuccessAfterRejections ==
    (Succeeded /\ strips = calls - 1)
      => /\ response.body.attempts = strips + 1
         /\ strips <= MaxAttempts - 1
         /\ Size(sent) = Size(Built) - strips
         /\ sent = [k \in DOMAIN Built \ named |-> Built[k]]
         /\ sent \in jobs

\* C1 witness: success on the last attempt, after fourteen strips.
C1_Witness ==
    /\ Succeeded
    /\ strips = calls - 1
    /\ strips = MaxAttempts - 1
    /\ response.body.attempts = MaxAttempts

\* C2 as stated: on every insert after the first of a request, the record sent
\* has strictly fewer keys than the record sent on the previous insert,
\* whatever error text the store returned in between.
C2_Original ==
    [][(calls' = calls + 1 /\ calls >= 1) => Size(sent') < Size(sent)]_vars

\* C3: every request ends, after at most 15 insert calls; it ends on a
\* successful insert, on the record becoming empty, on a fatal error or when 15
\* inserts have been made, and it goes on only while none of these has happened.
C3_Terminates ==
    /\ [](calls <= 15)
    /\ [](pc = "done" =>
            \/ reply.kind = "ok"
            \/ DOMAIN job_data = {}
            \/ (reply.kind = "raise" /\ ~IsSchemaMismatch(reply.err))
            \/ calls = 15)
    /\ [](pc = "loop" =>
            /\ calls < 15
            /\ DOMAIN job_data # {}
            /\ (calls > 0 => MismatchReply))
    /\ <>(pc = "done")

\* C3 witness: a request that ended by using all 15 inserts although its record
\* never shrank.
C3_Witness ==
    /\ pc = "done"
    /\ calls = 15
    /\ strips = 0
    /\ Size(job_data) = Size(Built)

\* the columns an error text names in the pattern of main.py:752
ColumnsNamed(err) == { err[i + 1].v : i \in MatchPositions(err) }

\* C4: a failed insert classified as a schema mismatch removes at most one key,
\* the removed key is a column the error text names (the first one it names,
\* when that is a key of the record), and every other key keeps its value.
C4_StripsOneNamedKey ==
    [][(calls' = calls + 1 /\ reply'.kind = "raise" /\ IsSchemaMismatch(reply'.err))
        => /\ DOMAIN job_data' \subseteq DOMAIN job_data
           /\ Cardinality(DOMAIN job_data \ DOMAIN job_data') <= 1
           /\ DOMAIN job_data \ DOMAIN job_data' \subseteq ColumnsNamed(reply'.err)
           /\ NamesPresentKey(job_data, reply'.err)
                => DOMAIN job_data \ DOMAIN job_data' = { re_search(reply'.err)[1] }
           /\ \A k \in DOMAIN job_data' : job_data'[k] = job_data[k]]_vars

\* C4 witness: the store named "email" while "email" and "contact_email" were
\* both in the record, and only "email" is gone.
C4_Witness ==
    /\ MismatchReply
    /\ re_search(reply.err) = Some("email")
    /\ "email" \in DOMAIN sent
    /\ DOMAIN job_data = DOMAIN sent \ { "email" }
    /\ "contact_email" \in DOMAIN job_data
    /\ job_data["contact_email"] = sent["contact_email"]

\* C5: the record never gains a key after it is built: its keys are always keys
\* of what _build_job_data returned, no step adds one, and no insert carries a
\* column that an earlier reply named.
C5_NeverGainsKey ==
    /\ [](pc # "start" => DOMAIN job_data \subseteq DOMAIN Built)
    /\ [][pc # "start" => DOMAIN job_data' \subseteq DOMAIN job_data]_vars
    /\ [][calls' = calls + 1 => DOMAIN sent' \cap named = {}]_vars

\* C5 witness: an insert made after two columns had been stripped.
C5_Witness ==
    /\ calls >= 3
    /\ Cardinality(named \cap DOMAIN Built) >= 2
    /\ DOMAIN sent = DOMAIN Built \ named

\* C6: an insert that fails with an error that is not a schema mismatch ends
\* the request on that occurrence with the 400 response carrying the raw error
\* text, whatever number of attempts is left, and no insert follows.
C6_FatalStopsAtOnce ==
    /\ [][(calls' = calls + 1 /\ reply'.kind = "raise" /\ ~IsSchemaMismatch(reply'.err))
            => /\ pc' = "done"
               /\ response' = HTTPException(400, "Database error: ", Some(reply'.err))
               /\ job_data' = job_data]_vars
    /\ [][(pc = "done" /\ reply.kind = "raise" /\ ~IsSchemaMismatch(reply.err))
            => (calls' = calls /\ response' = response)]_vars

\* C6 witness: a fatal error on the third insert, twelve attempts unused.
C6_Witness ==
    /\ pc = "done"
    /\ reply.kind = "raise"
    /\ ~IsSchemaMismatch(reply.err)
    /\ calls = 3
    /\ response.status = 400
    /\ response.detail.err = Some(reply.err)

\* C7: when all 15 inserts fail with schema-mismatch errors and the record is
\* still non-empty, the response is the retries-exhausted failure and the error
\* text in it is the one the 15th insert returned.
C7_LastErrorReported ==
    (pc = "done" /\ calls = 15 /\ MismatchReply /\ DOMAIN job_data # {})
      => response = HTTPException(400, "Insert failed after 15 attempts. Last error: ",
                                  Some(reply.err))

StaleError == << PGRST204, Lit("schema cache is stale") >>

\* C7 witness: 15 failed inserts of which the last returned a text that earlier
\* ones (those that stripped a column) did not.
C7_Witness ==
    /\ pc = "done"
    /\ calls = 15
    /\ reply.kind = "raise"
    /\ reply.err = StaleError
    /\ strips >= 1
    /\ response.status = 400

\* C8 as stated: when the store rejects every field it is shown, post_job
\* reports the all-columns-stripped failure, and no insert carries an empty
\* record.
C8_Original ==
    /\ (pc = "done" /\ OnlyRejections) => response = AllStrippedResponse
    /\ calls > 0 => DOMAIN sent # {}

\* C8 amended: no insert carries an empty record, the record never becomes
\* empty and the all-columns-stripped failure is never reported: a store that
\* rejects every field it is shown gets the retries-exhausted failure after the
\* 15th insert, with the N - 15 >= 1 fields that were never rejected left.
C8_NeverAllStripped ==
    /\ calls > 0 => DOMAIN sent # {}
    /\ pc # "start" => DOMAIN job_data # {}
    /\ response # AllStrippedResponse
    /\ (pc = "done" /\ OnlyRejections)
         => /\ calls = 15
            /\ response.status = 400
            /\ response.detail.text = "Insert failed after 15 attempts. Last error: "
            /\ Size(job_data) = Size(Built) - 15
            /\ Size(job_data) >= 1

\* C8 witness: 15 inserts, each rejected for a column of the record, one
\* field left.
C8_Witness ==
    /\ pc = "done"
    /\ OnlyRejections
    /\ calls = 15
    /\ Size(job_data) = 1

\* C9 as stated: each of the two exhaustion failures answers with a 4xx status
\* and the text of the last store error: the answer of a request that ends on
\* a schema-mismatch rejection, and the answer the loop gives at main.py:667-671
\* once a store error has stripped the record of its last column.
C9_Original ==
    /\ (pc = "done" /\ MismatchReply)
         => /\ response.status \in 400..499
            /\ response.detail.err = Some(reply.err)
    /\ last_error # None
         => /\ AllStrippedResponse.status \in 400..499
            /\ AllStrippedResponse.detail.err = last_error

\* C9 amended: a request that ends on a schema-mismatch rejection ends on the
\* retries-exhausted failure after the 15th insert, answered with status 400
\* and the text of the last store error, and makes no further insert; the
\* all-columns-stripped failure is never reported, and its answer is a 500
\* with a fixed text and no store error.
C9_RetriesExhaustedIsClientError ==
    /\ []((pc = "done" /\ MismatchReply)
            => /\ calls = 15
               /\ response = RetriesExhaustedResponse(Some(reply.err))
               /\ response.status = 400
               /\ response.status \in 400..499
               /\ response.detail.err = Some(reply.err))
    /\ [](/\ response # AllStrippedResponse
          /\ AllStrippedResponse.status = 500
          /\ AllStrippedResponse.detail.err = None)
    /\ [][(pc = "done" /\ MismatchReply) => calls' = calls]_vars

\* C9 witness: retries exhausted on an error that stripped nothing.
C9_Witness ==
    /\ pc = "done"
    /\ MismatchReply
    /\ re_search(reply.err) = None
    /\ response.status = 400
    /\ response.detail.err = Some(reply.err)

\* C10 as stated: an accepted insert that returns no identifier ends in the
\* 500 failure, and success is never reported without an identifier.
C10_Original ==
    /\ (pc = "done" /\ reply.kind = "ok"
          /\ (Len(reply.data) = 0 \/ GetId(reply.data[1]) = None))
         => response.status = 500
    /\ Succeeded => response.body.job_id # None

\* C11: when post_job reports success, attempts is the number of insert calls
\* made, one more than the failed attempts before it, which were all schema
\* mismatches; it lies in 1..15; and job_id is the id of the row the store
\* returned for the accepted insert.
C11_AttemptsCountInserts ==
    /\ Succeeded
         => /\ response.body.attempts = calls
            /\ attempt = calls - 1
            /\ response.body.attempts \in 1..15
            /\ reply.kind = "ok"
            /\ Len(reply.data) > 0
            /\ response.body.job_id =
                 (IF "id" \in DOMAIN reply.data[1] THEN << reply.data[1]["id"] >>
                  ELSE << >>)
    /\ (pc = "loop" /\ calls > 0) => (MismatchReply /\ attempt = calls)

\* C11 witness: success on the third insert with the id the store returned.
C11_Witness ==
    /\ Succeeded
    /\ calls = 3
    /\ response.body.attempts = 3
    /\ response.body.job_id = Some(NewId)
    /\ reply.data[1]["id"] = NewId

\* C13: building the record never ends the request; the geocoder is called at
\* most once, and only when a coordinate is missing; when the lookup raised or
\* returned nothing the record has the geo columns of the explicit coordinates
\* if the request has both, and no geo column otherwise.
C13_GeocodingDegrades ==
    /\ [][pc = "start" => (pc' = "loop" /\ response' = NoResponse)]_vars
    /\ [](geocode_calls <= 1)
    /\ [](geocode_calls = 1 => (job.lat = None \/ job.lng = None))
    /\ []((job.lat # None /\ job.lng # None /\ pc # "start")
            => /\ geocode_calls = 0
               /\ target_lat = job.lat
               /\ target_lng = job.lng)
    /\ [][(pc = "start" /\ target_lat' = job.lat /\ target_lng' = job.lng)
            => IF job.lat # None /\ job.lng # None
               THEN /\ GeoColumns \subseteq DOMAIN job_data'
                    /\ job_data'["lat"] = job.lat[1]
                    /\ job_data'["lng"] = job.lng[1]
               ELSE DOMAIN job_data' \cap GeoColumns = {}]_vars

\* C13 witness: one coordinate given, the lookup did not resolve, and the
\* request is in the insert loop with a record without geo columns.
C13_Witness ==
    /\ pc = "loop"
    /\ geocode_calls = 1
    /\ job.lat = Some(0)
    /\ job.lng = None
    /\ target_lat = Some(0)
    /\ target_lng = None
    /\ DOMAIN job_data = BaseColumns

\* the 16 columns C14 lists
C14_BaseNames ==
    { "employer_id", "title", "openings", "job_city", "total_experience",
      "salary_min", "salary_max", "offers_bonus", "required_skills",
      "company_name", "contact_person", "phone_number", "contact_email", "email",
      "hiring_speed", "hiring_frequency" }

\* the 6 geo columns C14 lists
C14_GeoNames == { "lat_long", "lat", "lng", "latitude", "longitude", "location" }

\* C14: the record _build_job_data returns always has the 16 base columns, and
\* it has the six geo columns, all together, exactly when both coordinates are
\* non-null (0 is a coordinate); otherwise it has none of them.
C14_BuiltColumns ==
    [][pc = "start"
        => /\ Cardinality(C14_BaseNames) = 16
           /\ C14_BaseNames \subseteq DOMAIN job_data'
           /\ IF target_lat' # None /\ target_lng' # None
              THEN DOMAIN job_data' = C14_BaseNames \cup C14_GeoNames
              ELSE DOMAIN job_data' = C14_BaseNames]_vars

\* C14 witness: both coordinates are 0 and the record has all 22 columns.
C14_Witness ==
    /\ pc = "loop"
    /\ calls = 0
    /\ target_lat = Some(0)
    /\ target_lng = Some(0)
    /\ Size(job_data) = 22
    /\ job_data["latitude"] = 0

\* C22 as stated: every row a successful post_job inserted carries
\* employer_id equal to the caller's id, whatever columns the store rejected
\* before it accepted the insert.
C22_Original ==
    Succeeded =>
        \A row \in jobs :
            "employer_id" \in DOMAIN row /\ row["employer_id"] = user

\* what does hold for C22: a row never carries the id of anyone else, and it
\* carries the caller's id unless the store named employer_id as unknown
C22_OwnerUnlessStripped ==
    \A row \in jobs :
        /\ "employer_id" \in DOMAIN row => row["employer_id"] = user
        /\ "employer_id" \notin DOMAIN row => "employer_id" \in named

----------------------------------------------------------------------------
(* The store tables the other handlers share *)

\* post_job is not running
IdlePostJob ==
    /\ job = JobOf("", None, None)
    /\ user = "u1"
    /\ pc = "idle"
    /\ target_lat = None
    /\ target_lng = None
    /\ geocode_calls = 0
    /\ job_data = << >>
    /\ last_error = None
    /\ attempt = 0
    /\ calls = 0
    /\ sent = << >>
    /\ reply = NoReply
    /\ strips = 0
    /\ named = {}
    /\ response = NoResponse

JobIds == { "j1", "j2" }

Emails == { "a@x.test", "b@x.test" }

\* the employer who posted each job
OwnerOf(job_id) == IF job_id = "j2" THEN "u2" ELSE "u1"

\* a row of table jobs as the handlers select it (id, employer_id, title)
\* the title of each job, a text as its letters
TitleOf(job_id) ==
    IF job_id = "j2" THEN << "w", "e", "b" >> ELSE << "W", "e", "l", "d", "e", "r" >>

\* .limit(n), and the page of .range(): the answers the store can give, any
\* n of the rows (all of them when there are no more than n); the order of
\* the rows is not modelled
Limit(rows, n) ==
    IF Cardinality(rows) <= n THEN { rows }
    ELSE { s \in SUBSET rows : Cardinality(s) = n }

JobRow(job_id) ==
    [id |-> job_id, employer_id |-> OwnerOf(job_id), title |-> TitleOf(job_id)]

JobExists(tbl, job_id) == \E j \in tbl : j.id = job_id

\* a row of job_applications (main.py:483-491, main.py:537-543)
AppRow(id, job_id, email) == [id |-> id, job_id |-> job_id, email |-> email]

\* .eq("job_id", job_id).eq("email", email) on job_applications
AppsOf(apps, job_id, email) ==
    { a \in apps : a.job_id = job_id /\ a.email = email }

\* id uuid DEFAULT gen_random_uuid(): an id no row of the table has
FreshAppId(apps) ==
    CHOOSE n \in 1..(Cardinality(apps) + 1) : \A a \in apps : a.id # n

\* the tables a specification starts from: any jobs, and at most one
\* application, for a job that exists (job_id REFERENCES jobs(id))
InitialTables ==
    /\ jobs \in SUBSET { JobRow(j) : j \in JobIds }
    /\ applications \in
         { {} } \cup { { AppRow(1, j.id, e) } : j \in jobs, e \in Emails }

----------------------------------------------------------------------------
(* apply_to_job *)

ApplyRequests == { "a1", "a2" }

\* a response of apply_to_job: HTTPException(status_code, detail)
ApError(status_code, text) == [status |-> status_code, detail |-> text]

\* main.py:549-553 under status_code=201 (main.py:468)
ApSuccess(application_id) ==
    [status |-> 201, application_id |-> application_id]

\* main.py:524 reading the result of the query as "no duplicate"
DupFoundNever(rows) == FALSE

\* main.py:524  `if dup.data`
DupFound(rows) == rows # {}

SpecApplyInit ==
    /\ IdlePostJob
    /\ InitialTables
    /\ ap \in [ApplyRequests ->
                { [pc |-> "job", job_id |-> j, email |-> e,
                   dup_at_start |-> AppsOf(applications, j, e) # {},
                   job_q |-> "none", dup_q |-> "none", inserts |-> 0,
                   response |-> NoResponse] : j \in JobIds, e \in Emails }]
    /\ ga = Idle
    /\ adm = Idle
    /\ auth_users = {}
    /\ employers = {}
    /\ employees = {}
    /\ reg = Idle
    /\ nb = Idle

\* main.py:499-513: the job query; .single() raises when no row matches, and
\* the store may fail for a job that exists
ApplyCheckJob(r) ==
    /\ ap[r].pc = "job"
    /\ \E q \in { "ok", "raise" } :
         /\ q = "ok" => JobExists(jobs, ap[r].job_id)
         /\ ap' = [ap EXCEPT ![r] =
                     IF q = "ok"
                     THEN [@ EXCEPT !.pc = "dup", !.job_q = "ok"]
                     ELSE [@ EXCEPT !.pc = "done", !.job_q = "raise",
                                    !.response = ApError(404, "Job not found.")]]
    /\ UNCHANGED << postJobVars, jobs, applications, ga, adm, auth_users,
                    employers, employees, reg, nb >>

\* main.py:515-532: the duplicate query
ApplyCheckDup(r) ==
    /\ ap[r].pc = "dup"
    /\ \E q \in { "ok", "raise" } :
         ap' = [ap EXCEPT ![r] =
                 IF q = "ok" /\ DupFound(AppsOf(applications, ap[r].job_id, ap[r].email))
                 THEN [@ EXCEPT !.pc = "done", !.dup_q = "ok",
                                !.response = ApError(409,
                                   "You have already applied to this job with this email address.")]
                 ELSE [@ EXCEPT !.pc = "insert", !.dup_q = q]]
    /\ UNCHANGED << postJobVars, jobs, applications, ga, adm, auth_users,
                    employers, employees, reg, nb >>

\* main.py:534-557: the insert; the store adds the row and returns it, adds
\* it and returns nothing, or raises and adds nothing (always so when the job
\* is gone: job_id REFERENCES jobs(id))
ApplyInsert(r) ==
    /\ ap[r].pc = "insert"
    /\ \E q \in { "row", "empty", "raise" } :
         LET id == FreshAppId(applications)
         IN  /\ q # "raise" => JobExists(jobs, ap[r].job_id)
             /\ applications' =
                  IF q = "raise" THEN applications
                  ELSE applications \cup { AppRow(id, ap[r].job_id, ap[r].email) }
             /\ ap' = [ap EXCEPT ![r] =
                         [@ EXCEPT !.pc = "done",
                                   !.inserts = @ + 1,
                                   !.response =
                                      CASE q = "row"   -> ApSuccess(Some(id))
                                        [] q = "empty" -> ApError(500, "Application submission failed.")
                                        [] q = "raise" -> ApError(500, "Failed to submit application: ")]]
    /\ UNCHANGED << postJobVars, jobs, ga, adm, auth_users,
                    employers, employees, reg, nb >>

SpecApplyNext ==
    \E r \in ApplyRequests : ApplyCheckJob(r) \/ ApplyCheckDup(r) \/ ApplyInsert(r)

SpecApply == SpecApplyInit /\ [][SpecApplyNext]_vars

\* C12 as stated: a request whose (job_id, email) already had a row when it
\* began ends with 409 and makes no insert, whatever the queries answered.
C12_Original ==
    \A r \in ApplyRequests :
        (ap[r].pc = "done" /\ ap[r].dup_at_start)
          => (ap[r].response.status = 409 /\ ap[r].inserts = 0)

\* C12 amended: a request whose (job_id, email) already had a row when it
\* began ends with 409 and no insert when the job query and the duplicate
\* query both answered, and with 404 and no insert when the job query failed;
\* an insert is made only when the duplicate query itself failed.
C12_DuplicateRejected ==
    \A r \in ApplyRequests :
        ap[r].dup_at_start
          => /\ (ap[r].pc = "done" /\ ap[r].job_q = "ok" /\ ap[r].dup_q = "ok")
                  => (ap[r].response.status = 409 /\ ap[r].inserts = 0)
             /\ (ap[r].pc = "done" /\ ap[r].job_q = "raise")
                  => (ap[r].response.status = 404 /\ ap[r].inserts = 0)
             /\ ap[r].inserts > 0 => ap[r].dup_q = "raise"
             /\ ap[r].inserts <= 1

\* C12 witness: a duplicate rejected with 409 after both queries answered.
C12_Witness ==
    \E r \in ApplyRequests :
        /\ ap[r].dup_at_start
        /\ ap[r].pc = "done"
        /\ ap[r].dup_q = "ok"
        /\ ap[r].response.status = 409
        /\ ap[r].inserts = 0

\* C21 as stated: whatever the interleaving of the apply_to_job requests,
\* job_applications never holds two rows with the same (job_id, email).
C21_Original ==
    \A a, b \in applications :
        (a.job_id = b.job_id /\ a.email = b.email) => a = b

\* the race behind C21: every query of both requests answered, no row for
\* the pair at the start, and both requests were accepted
C21_BothAccepted ==
    /\ ap["a1"].job_id = ap["a2"].job_id
    /\ ap["a1"].email = ap["a2"].email
    /\ \A r \in ApplyRequests :
         /\ ~ap[r].dup_at_start
         /\ ap[r].job_q = "ok"
         /\ ap[r].dup_q = "ok"
         /\ ap[r].pc = "done"
         /\ ap[r].response.status = 201

----------------------------------------------------------------------------
(* get_job_applicants *)

\* a response of get_job_applicants: HTTPException(status_code, detail)
GaError(status_code, text) == [status |-> status_code, detail |-> text]

\* main.py:602-609
GaSuccess(job_id, job_row, applicants) ==
    [status |-> 200, job_id |-> job_id, job_title |-> job_row.title,
     total_applicants |-> Cardinality(applicants), applicants |-> applicants]

\* main.py:586 letting every caller through
DeniedNever(job_row, caller) == FALSE

\* main.py:586  `if job["employer_id"] != current_user.id`
Denied(job_row, caller) == job_row.employer_id # caller

SpecApplicantsInit ==
    /\ IdlePostJob
    /\ InitialTables
    /\ ga \in { [pc |-> "job", job_id |-> j, caller |-> u, job_q |-> "none",
                  apps_reads |-> 0, response |-> NoResponse]
                : j \in JobIds, u \in Users }
    /\ ap = Idle
    /\ adm = Idle
    /\ auth_users = {}
    /\ employers = {}
    /\ employees = {}
    /\ reg = Idle
    /\ nb = Idle

\* main.py:569-590: the job query (.single() raises when no row matches, and
\* the store may fail for a job that exists), then the ownership test
GaFetchJob ==
    /\ ga.pc = "job"
    /\ \E q \in { "ok", "raise" } :
         /\ q = "ok" => JobExists(jobs, ga.job_id)
         /\ ga' = CASE q = "raise" ->
                        [ga EXCEPT !.pc = "done", !.job_q = q,
                                   !.response = GaError(404, "Job not found.")]
                     [] q = "ok" /\ Denied(JobRow(ga.job_id), ga.caller) ->
                        [ga EXCEPT !.pc = "done", !.job_q = q,
                                   !.response = GaError(403,
                                      "Access denied - you can only view applicants for your own job postings.")]
                     [] OTHER ->
                        [ga EXCEPT !.pc = "apps", !.job_q = q]
    /\ UNCHANGED << postJobVars, jobs, applications, ap, adm, auth_users,
                    employers, employees, reg, nb >>

\* main.py:592-612: the read of job_applications
GaFetchApps ==
    /\ ga.pc = "apps"
    /\ \E q \in { "ok", "raise" } :
         ga' = [ga EXCEPT !.pc = "done",
                          !.apps_reads = @ + 1,
                          !.response =
                             IF q = "ok"
                             THEN GaSuccess(ga.job_id, JobRow(ga.job_id),
                                     { a \in applications : a.job_id = ga.job_id })
                             ELSE GaError(500, "Failed to fetch applicants: ")]
    /\ UNCHANGED << postJobVars, jobs, applications, ap, adm, auth_users,
                    employers, employees, reg, nb >>

SpecApplicantsNext == GaFetchJob \/ GaFetchApps

SpecApplicants == SpecApplicantsInit /\ [][SpecApplicantsNext]_vars

\* C15 as stated: the list goes only to the job's employer; any other caller
\* of an existing job ends with 403 and no read of job_applications; a job
\* that does not exist ends with 404.
C15_Original ==
    ga.pc = "done" =>
        /\ ga.response.status = 200 => ga.caller = OwnerOf(ga.job_id)
        /\ (JobExists(jobs, ga.job_id) /\ ga.caller # OwnerOf(ga.job_id))
              => (ga.response.status = 403 /\ ga.apps_reads = 0)
        /\ ~JobExists(jobs, ga.job_id) => ga.response.status = 404

\* C15 amended: the list goes only to the job's employer; any other caller
\* never causes a read of job_applications and ends with 403 when the job
\* query answered and with 404 when it failed; a job that does not exist
\* ends with 404.
C15_OwnerOnly ==
    /\ ga.caller # OwnerOf(ga.job_id) => ga.apps_reads = 0
    /\ ga.pc = "done" =>
        /\ ga.response.status = 200 =>
              /\ ga.caller = OwnerOf(ga.job_id)
              /\ JobExists(jobs, ga.job_id)
              /\ ga.response.applicants =
                    { a \in applications : a.job_id = ga.job_id }
        /\ (JobExists(jobs, ga.job_id) /\ ga.caller # OwnerOf(ga.job_id))
              => /\ ga.job_q = "ok" => ga.response.status = 403
                 /\ ga.job_q = "raise" => ga.response.status = 404
        /\ ~JobExists(jobs, ga.job_id) => ga.response.status = 404

\* C15 witness: a caller who is not the employer of an existing job that has
\* an application is refused with 403.
C15_Witness ==
    /\ ga.pc = "done"
    /\ JobExists(jobs, ga.job_id)
    /\ ga.caller # OwnerOf(ga.job_id)
    /\ \E a \in applications : a.job_id = ga.job_id
    /\ ga.response.status = 403
    /\ ga.apps_reads = 0

----------------------------------------------------------------------------
(* register_user *)

\* the text of an exception of the auth backend or the store, as its words
RegMessages ==
    [ registered |-> << "User", "already", "registered" >>,
      exists     |-> << "A", "user", "with", "this", "email", "Already", "Exists" >>,
      dupkey     |-> << "duplicate", "key", "value", "already", "exists" >>,
      network    |-> << "Connection", "reset" >> ]

\* str.lower() on one token of a text (a word, or a letter)
LowerWord(w) ==
    CASE w = "User" -> "user"
      [] w = "W" -> "w"
      [] w = "B" -> "b"
      [] w = "N" -> "n"
      [] w = "S" -> "s"
      [] w = "E" -> "e"
      [] w = "A" -> "a"
      [] w = "Already" -> "already"
      [] w = "Exists" -> "exists"
      [] w = "Connection" -> "connection"
      [] OTHER -> w

\* str.lower()
Lower(msg) == [i \in 1..Len(msg) |-> LowerWord(msg[i])]

\* `sub in text` on word sequences
Contains(text, sub) ==
    \E i \in 0..(Len(text) - Len(sub)) :
        \A k \in 1..Len(sub) : text[i + k] = sub[k]

\* main.py:175
IsDuplicate(msg) ==
    \/ Contains(Lower(msg), << "already", "registered" >>)
    \/ Contains(Lower(msg), << "already", "exists" >>)

\* truth value of an Optional[str] field
Truthy(opt) == opt # None /\ opt[1] # ""

RegError(status_code, text) == [status |-> status_code, detail |-> text]

\* main.py:172-181: the handler's answer to an exception with text msg
RegExceptionResponse(msg) ==
    IF IsDuplicate(msg)
    THEN RegError(409, "An account with this email already exists. Please log in instead.")
    ELSE RegError(400, << "Registration error:" >> \o msg)

\* main.py:162-167
RegSuccess(user_id, role, access_token) ==
    [status |-> 200, message |-> "Registration successful", user_id |-> user_id,
     role |-> role, access_token |-> access_token]

\* main.py:149-160 keeping only the session of sign-up
AccessTokenOfSignUpOnly(session, login_session) == session

\* main.py:149-160: the token of the sign-up session when there is one,
\* otherwise that of the sign-in session, otherwise None
AccessToken(session, login_session) ==
    IF session # None THEN session ELSE login_session

UserIdOf(email) == IF email = "a@x.test" THEN "u1" ELSE "u2"

\* main.py:128 and main.py:133: auth_res.user.id, the ids sign_up can answer
\* with: the id of the account, or for an email that had an account already
\* also a placeholder id that belongs to no account
SignUpUserIds(email, accounts) ==
    IF email \in accounts THEN { UserIdOf(email), "u0" } ELSE { UserIdOf(email) }

Roles == { "employer", "employee" }

CompanyNames == { None, Some(""), Some("Acme") }

FullNames == { None, Some(""), Some("Asha") }

Phones == { None, Some("555") }

\* main.py:130-135 and main.py:137-142: the profile row of each role
ProfileRow(r) ==
    IF r.role = "employer"
    THEN [id |-> r.user_id, company_name |-> r.company_name[1], email |-> r.email]
    ELSE LET profile == [id |-> r.user_id, email |-> r.email]
             with_name == IF Truthy(r.full_name)
                          THEN profile @@ ("full_name" :> r.full_name[1]) ELSE profile
         IN  IF Truthy(r.phone) THEN with_name @@ ("phone" :> r.phone[1])
             ELSE with_name

\* .upsert(row): the row replaces the one with the same id
Upsert(tbl, row) == { x \in tbl : x.id # row.id } \cup { row }

SpecRegisterInit ==
    /\ IdlePostJob
    /\ jobs = {}
    /\ applications = {}
    /\ ap = Idle
    /\ ga = Idle
    /\ adm = Idle
    /\ nb = Idle
    /\ auth_users \in SUBSET Emails
    /\ employers = {}
    /\ employees = {}
    /\ reg \in { [pc |-> "sign_up", email |-> e, role |-> ro, company_name |-> c,
                   full_name |-> f, phone |-> ph,
                   dup_at_start |-> e \in auth_users,
                   sign_up_q |-> "none", sign_ups |-> 0, upserts |-> 0, sign_ins |-> 0,
                   user_id |-> "", session |-> None, login_session |-> None,
                   response |-> NoResponse]
                 : e \in Emails, ro \in Roles, c \in CompanyNames,
                   f \in FullNames, ph \in Phones }

\* main.py:117-131 and main.py:170-181: the company_name test, then
\* supabase.auth.sign_up and the test of auth_res.user.  On any email the auth
\* backend may fail, answer without a user, or answer with a user, with or
\* without a session; an email without an account gets its account then.  For
\* an email that has an account the backend may also raise a rejection, and a
\* user it answers with instead carries the id of the account or a
\* placeholder id (the answer of a backend that hides which emails are
\* registered), and no account is created.
RegSignUp ==
    /\ reg.pc = "sign_up"
    /\ IF reg.role = "employer" /\ ~Truthy(reg.company_name)
       THEN /\ reg' = [reg EXCEPT !.pc = "done",
                                   !.response = RegError(422,
                                      "company_name is required when role is 'employer'.")]
            /\ UNCHANGED auth_users
       ELSE \E q \in { "registered", "exists", "network", "session", "no_session", "no_user" } :
              /\ q \in { "registered", "exists" } => reg.email \in auth_users
              /\ auth_users' = IF q \in { "session", "no_session" }
                               THEN auth_users \cup { reg.email }
                               ELSE auth_users
              /\ CASE q \in { "registered", "exists", "network" } ->
                          reg' = [reg EXCEPT !.pc = "done", !.sign_up_q = q, !.sign_ups = @ + 1,
                                      !.response = RegExceptionResponse(RegMessages[q])]
                     [] q = "no_user" ->
                          reg' = [reg EXCEPT !.pc = "done", !.sign_up_q = q, !.sign_ups = @ + 1,
                                      !.response = RegError(400,
                                         "Registration failed - no user returned.")]
                     [] OTHER ->
                          \E uid \in SignUpUserIds(reg.email, auth_users) :
                            reg' = [reg EXCEPT !.pc = "upsert", !.sign_up_q = q,
                                               !.sign_ups = @ + 1,
                                               !.user_id = uid,
                                               !.session = IF q = "session"
                                                           THEN Some("token-of-sign-up")
                                                           ELSE None]
    /\ UNCHANGED << postJobVars, jobs, applications, ap, ga, adm,
                    employers, employees, nb >>

\* main.py:130-147 and main.py:170-181: the upsert of the profile row
RegUpsert ==
    /\ reg.pc = "upsert"
    /\ \E q \in { "ok", "dupkey", "network" } :
         /\ employers' = IF q = "ok" /\ reg.role = "employer"
                          THEN Upsert(employers, ProfileRow(reg)) ELSE employers
         /\ employees' = IF q = "ok" /\ reg.role # "employer"
                          THEN Upsert(employees, ProfileRow(reg)) ELSE employees
         /\ reg' = IF q = "ok"
                    THEN [reg EXCEPT !.pc = "token", !.upserts = @ + 1]
                    ELSE [reg EXCEPT !.pc = "done", !.upserts = @ + 1,
                                     !.response = RegExceptionResponse(RegMessages[q])]
    /\ UNCHANGED << postJobVars, jobs, applications, ap, ga, adm, auth_users, nb >>

\* main.py:149-168: the token, by sign_in_with_password when sign-up gave no
\* session; the sign-in answers with a session, without one, or raises
RegToken ==
    /\ reg.pc = "token"
    /\ \E q \in { "none", "session", "no_session", "raise" } :
         /\ q = "none" <=> reg.session # None
         /\ LET login_session == IF q = "session" THEN Some("token-of-sign-in") ELSE None
                r == [reg EXCEPT !.login_session = login_session,
                                 !.sign_ins = IF q = "none" THEN @ ELSE @ + 1]
            IN  reg' = [r EXCEPT !.pc = "done",
                                 !.response = RegSuccess(reg.user_id, reg.role,
                                                 AccessToken(reg.session, login_session))]
    /\ UNCHANGED << postJobVars, jobs, applications, ap, ga, adm, auth_users,
                    employers, employees, nb >>

SpecRegisterNext == RegSignUp \/ RegUpsert \/ RegToken

SpecRegister == SpecRegisterInit /\ [][SpecRegisterNext]_vars

\* C17 as stated, in its outcome: a registration for an email that already
\* has an account writes no row to employers or employees and is answered
\* with an error, never as a success.
C17_Original ==
    reg.dup_at_start
      => /\ employers = {} /\ employees = {}
         /\ reg.pc = "done" => reg.response.status \in 400..499

\* what does hold for C17: sign_up is the first call and is made at most once;
\* when it raises or answers without a user, no profile upsert and no sign-in
\* follows, no row is written, and the answer is 409 for a rejection text with
\* "already registered" or "already exists" in any letter case and 400
\* otherwise; an employer without company_name gets 422 before sign_up; when
\* sign_up answers with a user, the profile upsert is made, and a success
\* leaves a profile row for the email that had an account.
C17_DuplicateOutcomes ==
    reg.dup_at_start
      => /\ reg.sign_ups <= 1
         /\ reg.upserts <= 1
         /\ reg.sign_up_q \notin { "session", "no_session" }
              => /\ reg.upserts = 0
                 /\ reg.sign_ins = 0
                 /\ employers = {} /\ employees = {}
         /\ reg.pc = "done" =>
              /\ reg.sign_up_q \in { "registered", "exists" } => reg.response.status = 409
              /\ reg.sign_up_q \in { "network", "no_user" } => reg.response.status = 400
              /\ reg.sign_up_q = "none"
                   => (reg.response.status = 422 /\ reg.sign_ups = 0)
              /\ reg.sign_up_q \in { "session", "no_session" }
                   => /\ reg.upserts = 1
                      /\ reg.response.status \in { 200, 400, 409 }
                      /\ reg.response.status = 200
                           <=> Cardinality(employers \cup employees) = 1

\* a duplicate registration answered as a success, with its profile row
C17_DuplicateSucceeds ==
    /\ reg.dup_at_start
    /\ reg.pc = "done"
    /\ reg.sign_up_q = "no_session"
    /\ reg.user_id = "u0"
    /\ reg.response.status = 200
    /\ Cardinality(employers \cup employees) = 1

\* C18 as stated: every successful response carries a token: that of the
\* sign-up session when there is one, otherwise that of the sign-in.
C18_Original ==
    (reg.pc = "done" /\ reg.response.status = 200)
      => /\ reg.response.access_token # None
         /\ reg.session # None => reg.response.access_token = reg.session
         /\ reg.session = None => reg.response.access_token = Some("token-of-sign-in")

\* C18 amended: a successful response carries the token of the sign-up
\* session when there is one (no sign-in is then made); otherwise one sign-in
\* is made and the response carries its token when it returned a session,
\* and a null access_token when it raised or returned no session.
C18_TokenOrNull ==
    (reg.pc = "done" /\ reg.response.status = 200)
      => /\ reg.session # None
              => (reg.response.access_token = reg.session /\ reg.sign_ins = 0)
         /\ reg.session = None
              => /\ reg.sign_ins = 1
                 /\ reg.response.access_token = reg.login_session
         /\ reg.response.access_token \in
              { None, Some("token-of-sign-up"), Some("token-of-sign-in") }

\* C18 witness: sign-up gave no session and the sign-in supplied the token.
C18_Witness ==
    /\ reg.pc = "done"
    /\ reg.response.status = 200
    /\ reg.session = None
    /\ reg.sign_ins = 1
    /\ reg.response.access_token = Some("token-of-sign-in")

\* the request created an account in the auth backend
NewAccount == reg.email \in auth_users /\ ~reg.dup_at_start

\* the profile rows with the id of the request's user
ProfilesOf(tbl) == { x \in tbl : x.id = reg.user_id }

\* C23 as stated: an error response leaves neither a new account nor a new
\* profile row; a success leaves exactly one profile row with the new user's
\* id in the table of the requested role and the other table unwritten.
C23_Original ==
    reg.pc = "done" =>
        /\ reg.response.status # 200
             => (~NewAccount /\ employers = {} /\ employees = {})
        /\ reg.response.status = 200
             => IF reg.role = "employer"
                THEN Cardinality(ProfilesOf(employers)) = 1 /\ employees = {}
                ELSE Cardinality(ProfilesOf(employees)) = 1 /\ employers = {}

\* what does hold for C23: an error response leaves no profile row, and a
\* new account exactly when the email had none and the profile upsert was the
\* call that failed; a success leaves an account of the email and exactly one
\* profile row, in the table of the requested role.
C23_PartialOnUpsertFailure ==
    reg.pc = "done" =>
        /\ reg.response.status # 200
             => /\ employers = {} /\ employees = {}
                /\ NewAccount <=> (reg.upserts = 1 /\ ~reg.dup_at_start)
        /\ reg.response.status = 200
             => /\ reg.email \in auth_users
                /\ IF reg.role = "employer"
                   THEN Cardinality(ProfilesOf(employers)) = 1 /\ employees = {}
                   ELSE Cardinality(ProfilesOf(employees)) = 1 /\ employers = {}

----------------------------------------------------------------------------
(* get_nearby_jobs *)

\* the rows of table jobs a search runs over: id, title (a text as its
\* letters, or NULL) and whether the row lies within the radius
NearbyRows ==
    { [id |-> "n1", title |-> Some(<< "W", "e", "l", "d", "e", "r" >>), near |-> TRUE],
      [id |-> "n2", title |-> Some(<< "w", "e", "b" >>), near |-> FALSE],
      [id |-> "n3", title |-> None, near |-> TRUE] }

\* the ?title= parameter: absent, empty, or a text as its letters
Titles == { None, Some(<< >>), Some(<< "W", "E" >>), Some(<< " ", "e", "b", " " >>) }

\* truth value of an Optional[str] held as letters
TruthyText(opt) == opt # None /\ opt[1] # << >>

RECURSIVE LStrip(_)
LStrip(t) == IF t # << >> /\ Head(t) = " " THEN LStrip(Tail(t)) ELSE t

RECURSIVE RStrip(_)
RStrip(t) ==
    IF t # << >> /\ t[Len(t)] = " " THEN RStrip(SubSeq(t, 1, Len(t) - 1)) ELSE t

\* str.strip()
Strip(t) == RStrip(LStrip(t))

\* main.py:355-361: the title_filter parameter of the level-1 call, None
\* when the key is not sent
TitleFilter(title) == IF TruthyText(title) THEN Some(Strip(title[1])) ELSE None

\* title ILIKE ('%' || pattern || '%'); NULL ILIKE anything is not true
ILike(row_title, pattern) ==
    row_title # None /\ Contains(Lower(row_title[1]), Lower(pattern))

\* get_jobs_nearby(user_lat, user_lng, radius_meters, title_filter), as the
\* SQL of main.py:315-351
RpcNearby(tbl, title_filter) ==
    { j \in tbl : j.near /\ (title_filter = None \/ ILike(j.title, title_filter[1])) }

\* main.py:378-379: `title.lower() in (j.get("title") or "").lower()`
PythonTitleFilter(rows, title) ==
    { j \in rows :
        Contains(Lower(IF j.title = None THEN << >> ELSE j.title[1]), Lower(title[1])) }

\* main.py:397  .limit(20)
PlainLimit == 20

\* main.py:388-397: the answers the plain query can give:
\* .ilike("title", "%" + title.strip() + "%") when a title was given, then
\* .limit(20)
PlainQuery(tbl, title) ==
    Limit(IF TruthyText(title) THEN { j \in tbl : ILike(j.title, Strip(title[1])) }
          ELSE tbl,
          PlainLimit)

\* main.py:366, 380, 398-406: the success body
NbSuccess(rows, warning) ==
    [status |-> 200, results_count |-> Cardinality(rows), jobs |-> rows,
     warning |-> warning]

\* main.py:372 attempting level 2 whatever the title
Level2Always(title) == TRUE

\* main.py:372  `if title:`
Level2Applies(title) == TruthyText(title)

SpecNearbyInit ==
    /\ IdlePostJob
    /\ jobs \in SUBSET NearbyRows
    /\ applications = {}
    /\ ap = Idle
    /\ ga = Idle
    /\ adm = Idle
    /\ auth_users = {}
    /\ employers = {}
    /\ employees = {}
    /\ reg = Idle
    /\ nb \in { [pc |-> "level1", title |-> t, log |-> << >>, response |-> NoResponse]
                : t \in Titles }

\* main.py:362-369, and the `if title:` of main.py:372 when the call raised
NearbyLevel1 ==
    /\ nb.pc = "level1"
    /\ \E ok \in BOOLEAN :
         nb' = IF ok
               THEN [nb EXCEPT !.pc = "done",
                               !.log = Append(@, [level |-> 1, ok |-> TRUE]),
                               !.response =
                                  NbSuccess(RpcNearby(jobs, TitleFilter(nb.title)), FALSE)]
               ELSE [nb EXCEPT !.pc = IF Level2Applies(nb.title) THEN "level2" ELSE "level3",
                               !.log = Append(@, [level |-> 1, ok |-> FALSE])]
    /\ UNCHANGED << postJobVars, jobs, applications, ap, ga, adm, auth_users,
                    employers, employees, reg >>

\* main.py:372-383
NearbyLevel2 ==
    /\ nb.pc = "level2"
    /\ \E ok \in BOOLEAN :
         nb' = IF ok
               THEN [nb EXCEPT !.pc = "done",
                               !.log = Append(@, [level |-> 2, ok |-> TRUE]),
                               !.response =
                                  NbSuccess(PythonTitleFilter(RpcNearby(jobs, None), nb.title),
                                            FALSE)]
               ELSE [nb EXCEPT !.pc = "level3",
                               !.log = Append(@, [level |-> 2, ok |-> FALSE])]
    /\ UNCHANGED << postJobVars, jobs, applications, ap, ga, adm, auth_users,
                    employers, employees, reg >>

\* main.py:385-408
NearbyLevel3 ==
    /\ nb.pc = "level3"
    /\ \E ok \in BOOLEAN, rows \in PlainQuery(jobs, nb.title) :
         nb' = [nb EXCEPT !.pc = "done",
                          !.log = Append(@, [level |-> 3, ok |-> ok]),
                          !.response =
                             IF ok THEN NbSuccess(rows, TRUE)
                             ELSE [status |-> 500, detail |-> "All fallbacks failed: "]]
    /\ UNCHANGED << postJobVars, jobs, applications, ap, ga, adm, auth_users,
                    employers, employees, reg >>

SpecNearbyNext == NearbyLevel1 \/ NearbyLevel2 \/ NearbyLevel3

SpecNearby == SpecNearbyInit /\ [][SpecNearbyNext]_vars

\* the levels attempted so far, in order
LevelsTried == [i \in 1..Len(nb.log) |-> nb.log[i].level]

\* C19: the levels are attempted in the order 1, 2, 3, each only after all
\* attempted before it failed; level 2 only for a non-empty title; the first
\* success ends the request with that level's response (the warning only at
\* level 3); the request fails with 500 exactly when level 3 failed.
C19_FallbackOrder ==
    /\ LevelsTried \in
         IF TruthyText(nb.title)
         THEN { << >>, << 1 >>, << 1, 2 >>, << 1, 2, 3 >> }
         ELSE { << >>, << 1 >>, << 1, 3 >> }
    /\ \A i \in 1..(Len(nb.log) - 1) : ~nb.log[i].ok
    /\ nb.pc = "done" <=> (nb.log # << >> /\ (nb.log[Len(nb.log)].ok
                                               \/ nb.log[Len(nb.log)].level = 3))
    /\ nb.pc = "done" =>
         LET last == nb.log[Len(nb.log)]
         IN  /\ nb.response.status = 500 <=> (last.level = 3 /\ ~last.ok)
             /\ nb.response.status = 200 <=> last.ok
             /\ last.ok => (nb.response.warning <=> last.level = 3)
             /\ (last.ok /\ last.level = 1) =>
                   nb.response.jobs = RpcNearby(jobs, TitleFilter(nb.title))
             /\ (last.ok /\ last.level = 2) =>
                   nb.response.jobs \subseteq RpcNearby(jobs, None)

\* C19 witness: levels 1 and 2 failed for a given title and level 3 answered
\* with the warning.
C19_Witness ==
    /\ nb.pc = "done"
    /\ LevelsTried = << 1, 2, 3 >>
    /\ nb.response.status = 200
    /\ nb.response.warning
    /\ nb.response.results_count > 0

----------------------------------------------------------------------------
(* admin.py: require_admin and the routes it guards *)

\* admin.py:24  os.environ.get("ADMIN_SECRET_KEY", "change-me-in-env")
ADMIN_SECRET_KEY(env) == IF env = None THEN "change-me-in-env" ELSE env[1]

\* the routes of admin_router, by the name of their function
AdminRoutes ==
    { "admin_dashboard", "list_employers", "get_employer", "update_employer",
      "list_employees", "get_employee", "update_employee", "delete_user",
      "admin_list_jobs", "admin_update_job", "admin_delete_job",
      "admin_list_applications", "admin_delete_application", "admin_global_search" }

\* the X-Admin-Key header of a request: absent, or a value
AdminHeaders == { None, Some("wrong"), Some("change-me-in-env"), Some("s3cret") }

\* the ADMIN_SECRET_KEY environment variable: unset, or set
AdminEnvs == { None, Some("s3cret") }

AdminError(status_code, text) == [status |-> status_code, detail |-> text]

\* admin.py:35  `x_admin_key: str = Header(...)`: a required header; the
\* framework answers a request without it with 422 and does not call the
\* function
MissingHeaderResponse == AdminError(422, "Field required")

\* admin.py:35-38
require_admin(x_admin_key, env) ==
    IF x_admin_key = None THEN MissingHeaderResponse
    ELSE IF x_admin_key[1] # ADMIN_SECRET_KEY(env)
         THEN AdminError(403, "Invalid or missing admin key.")
         ELSE NoResponse

\* the query parameters and the body of a request, at their defaults: limit
\* and offset of the list routes (admin.py:119-120), search or q (a text as
\* its letters), the employer_id or job_id filter, the email filter, and the
\* value the body of an update gives to the text field of the row (None: a
\* body with every field null)
DefaultParams ==
    [limit |-> 20, offset |-> 0, search |-> None, filter_id |-> None,
     email |-> None, body |-> None]

\* the parameters each route is requested with
AdminParams(route) ==
    CASE route \in { "list_employers", "list_employees" } ->
           { DefaultParams,
             [DefaultParams EXCEPT !.limit = 1],
             [DefaultParams EXCEPT !.offset = 1],
             [DefaultParams EXCEPT !.search = Some(<< "A", "S" >>)],
             [DefaultParams EXCEPT !.search = Some(<< "a", "c" >>)] }
      [] route = "admin_list_jobs" ->
           { DefaultParams,
             [DefaultParams EXCEPT !.limit = 1],
             [DefaultParams EXCEPT !.offset = 1],
             [DefaultParams EXCEPT !.search = Some(<< "W", "E" >>)],
             [DefaultParams EXCEPT !.filter_id = Some("u1")],
             [DefaultParams EXCEPT !.filter_id = Some("")] }
      [] route = "admin_list_applications" ->
           { DefaultParams,
             [DefaultParams EXCEPT !.limit = 1],
             [DefaultParams EXCEPT !.offset = 1],
             [DefaultParams EXCEPT !.filter_id = Some("j1")],
             [DefaultParams EXCEPT !.filter_id = Some("")],
             [DefaultParams EXCEPT !.email = Some(<< "B", "@" >>)] }
      [] route \in { "update_employer", "update_employee", "admin_update_job" } ->
           { DefaultParams,
             [DefaultParams EXCEPT !.body = Some(<< "N", "e", "w" >>)] }
      [] route = "admin_global_search" ->
           { [DefaultParams EXCEPT !.search = Some(<< "w", "e" >>)],
             [DefaultParams EXCEPT !.search = Some(<< "A", "s" >>)] }
      [] OTHER -> { DefaultParams }

\* the id in the path of each route: a user, a job or an application
AdminPathIds(route) ==
    CASE route \in { "get_employer", "update_employer", "get_employee",
                     "update_employee", "delete_user" } -> { "u1", "u2" }
      [] route \in { "admin_update_job", "admin_delete_job" } -> { "j1" }
      [] route = "admin_delete_application" -> { 1 }
      [] OTHER -> { "" }

\* a request to an admin route: its header, the environment it meets, the id
\* in its path and its parameters; ops are the store and auth-backend calls
\* made so far, data the answers kept in locals, todo the rows a loop has
\* still to visit
AdminRequest(route, header, env, path_id, params) ==
    [pc |-> "guard", route |-> route, header |-> header, env |-> env,
     path_id |-> path_id, params |-> params, ops |-> << >>, data |-> << >>,
     todo |-> {}, response |-> NoResponse]

\* dependencies=[Depends(require_admin)] of every route of admin.py
AdminGuard ==
    /\ adm.pc = "guard"
    /\ LET r == require_admin(adm.header, adm.env)
       IN  adm' = IF r = NoResponse
                  THEN [adm EXCEPT !.pc = "handler"]
                  ELSE [adm EXCEPT !.pc = "done", !.response = r]
    /\ UNCHANGED << postJobVars, jobs, applications, ap, ga, auth_users,
                    employers, employees, reg, nb >>

\* the rows of employers and employees the admin routes run over; a text
\* column is held as its letters
EmployerRows ==
    { [id |-> "u1", company_name |-> << "A", "c", "m", "e" >>, email |-> "a@x.test"],
      [id |-> "u2", company_name |-> << "w", "e", "b", "c", "o" >>, email |-> "b@x.test"] }

EmployeeRows ==
    { [id |-> "u2", full_name |-> << "A", "s", "h", "a" >>, email |-> "b@x.test"] }

AdminJobIds == { "j1", "j2", "j3" }

\* the letters of an email address
EmailText(email) ==
    IF email = "a@x.test" THEN << "a", "@", "x", ".", "t", "e", "s", "t" >>
    ELSE << "b", "@", "x", ".", "t", "e", "s", "t" >>

\* the email of the account with a user id (the inverse of UserIdOf)
AuthEmailOf(user_id) == IF user_id = "u1" THEN "a@x.test" ELSE "b@x.test"

\* the tables an admin request meets: any jobs, any employers and employees,
\* at most one application, for a job that exists, and both accounts
AdminTables ==
    /\ jobs \in SUBSET { JobRow(j) : j \in AdminJobIds }
    /\ applications \in
         { {} } \cup { { AppRow(1, j.id, "b@x.test") } : j \in jobs }
    /\ employers \in SUBSET EmployerRows
    /\ employees \in SUBSET EmployeeRows
    /\ auth_users = Emails

\* .range(offset, offset + limit - 1): the answers the store can give, the
\* rows of one page (the order of the rows is not modelled)
Window(rows, offset, limit) ==
    LET left == Cardinality(rows) - offset
        size == IF left <= 0 THEN 0 ELSE IF left < limit THEN left ELSE limit
    IN  { s \in SUBSET rows : Cardinality(s) = size }

\* admin.py:125-129
EmployersQuery(tbl, p) ==
    Window({ e \in tbl : TruthyText(p.search)
                           => ILike(Some(e.company_name), p.search[1]) },
           p.offset, p.limit)

\* admin.py:206-210
EmployeesQuery(tbl, p) ==
    Window({ e \in tbl : TruthyText(p.search)
                           => ILike(Some(e.full_name), p.search[1]) },
           p.offset, p.limit)

\* admin.py:312-321; `if search:` and `if employer_id:` test truth, so an
\* empty value adds no filter
JobsQuery(tbl, p) ==
    Window({ j \in tbl :
               /\ TruthyText(p.search) => ILike(Some(j.title), p.search[1])
               /\ Truthy(p.filter_id) => j.employer_id = p.filter_id[1] },
           p.offset, p.limit)

\* admin.py:380-388; `if job_id:` and `if email:` test truth, so an empty
\* value adds no filter
ApplicationsQuery(tbl, p) ==
    Window({ a \in tbl :
               /\ Truthy(p.filter_id) => a.job_id = p.filter_id[1]
               /\ TruthyText(p.email) => ILike(Some(EmailText(a.email)), p.email[1]) },
           p.offset, p.limit)

\* admin.py:86, 94, 424, 432, 440  .limit(5)
RecentLimit == 5

\* the steps of the admin routes leave the other handlers alone
OthersIdle == UNCHANGED << postJobVars, ap, ga, reg, nb >>

\* a step that changes no table
TablesKept == UNCHANGED << jobs, applications, employers, employees, auth_users >>

\* one more call made
Called(a, op) == [a EXCEPT !.ops = Append(@, op)]

\* the request ends with response r
Ended(a, r) == [a EXCEPT !.pc = "done", !.response = r]

\* admin.py:77-112: admin_dashboard, one store call per step
DashboardOps ==
    << "read jobs", "read employers", "read employees", "read job_applications",
       "read jobs", "read job_applications" >>

AdminDashboard ==
    /\ adm.pc = "handler"
    /\ adm.route = "admin_dashboard"
    /\ LET k == Len(adm.data) + 1
           answers == CASE k = 1 -> { Cardinality(jobs) }
                        [] k = 2 -> { Cardinality(employers) }
                        [] k = 3 -> { Cardinality(employees) }
                        [] k = 4 -> { Cardinality(applications) }
                        [] k = 5 -> Limit(jobs, RecentLimit)
                        [] OTHER -> Limit(applications, RecentLimit)
           a == Called(adm, DashboardOps[k])
       IN  \E ok \in BOOLEAN, res \in answers :
             adm' = IF ~ok THEN Ended(a, AdminError(500, "Dashboard error: "))
                    ELSE IF k < Len(DashboardOps)
                    THEN [a EXCEPT !.data = Append(@, res)]
                    ELSE Ended([a EXCEPT !.data = Append(@, res)],
                               [status |-> 200,
                                stats |-> [total_jobs |-> adm.data[1],
                                           total_employers |-> adm.data[2],
                                           total_employees |-> adm.data[3],
                                           total_applications |-> adm.data[4]],
                                recent_jobs |-> adm.data[5],
                                recent_applications |-> res])
    /\ TablesKept
    /\ OthersIdle

\* admin.py:125-130 and admin.py:312-323: the page of rows of list_employers
\* and admin_list_jobs
ListedRows(route, p) ==
    IF route = "list_employers" THEN EmployersQuery(employers, p)
    ELSE JobsQuery(jobs, p)

\* admin.py:134 and admin.py:326: the count="exact" of the per-row query
CountOf(route, row) ==
    IF route = "list_employers"
    THEN Cardinality({ j \in jobs : j.employer_id = row.id })
    ELSE Cardinality({ a \in applications : a.job_id = row.id })

\* admin.py:135-137 and admin.py:327-329: the row with its count, None when
\* the per-row query raised
Counted(route, row, count) ==
    IF route = "list_employers" THEN row @@ ("job_count" :> count)
    ELSE row @@ ("applicant_count" :> count)

\* admin.py:139 and admin.py:331
ListResponse(route, rows) ==
    IF route = "list_employers"
    THEN [status |-> 200, count |-> Cardinality(rows), employers |-> rows]
    ELSE [status |-> 200, count |-> Cardinality(rows), jobs |-> rows]

\* admin.py:125-131 and admin.py:312-324: the first query of list_employers
\* and admin_list_jobs
AdminListRows ==
    /\ adm.pc = "handler"
    /\ adm.route \in { "list_employers", "admin_list_jobs" }
    /\ LET a == Called(adm, IF adm.route = "list_employers" THEN "read employers"
                            ELSE "read jobs")
       IN  \E ok \in BOOLEAN, rows \in ListedRows(adm.route, adm.params) :
             adm' = IF ~ok THEN Ended(a, AdminError(500, ""))
                    ELSE IF rows = {} THEN Ended(a, ListResponse(adm.route, {}))
                    ELSE [a EXCEPT !.pc = "count", !.todo = rows]
    /\ TablesKept
    /\ OthersIdle

\* admin.py:132-139 and admin.py:325-331: the count query of one row; its
\* exception is swallowed and the row gets a null count
AdminCountRow ==
    /\ adm.pc = "count"
    /\ \E row \in adm.todo, ok \in BOOLEAN :
         LET count == IF ok THEN Some(CountOf(adm.route, row)) ELSE None
             a == [Called(adm, IF adm.route = "list_employers" THEN "read jobs"
                               ELSE "read job_applications")
                     EXCEPT !.todo = @ \ { row },
                            !.data = Append(@, Counted(adm.route, row, count))]
         IN  adm' = IF a.todo = {}
                    THEN Ended(a, ListResponse(adm.route, SeqRange(a.data)))
                    ELSE a
    /\ TablesKept
    /\ OthersIdle

\* admin.py:206-211 and admin.py:380-394: list_employees and
\* admin_list_applications, one query
AdminListPlain ==
    /\ adm.pc = "handler"
    /\ adm.route \in { "list_employees", "admin_list_applications" }
    /\ LET employee == adm.route = "list_employees"
           a == Called(adm, IF employee THEN "read employees"
                            ELSE "read job_applications")
           answers == IF employee THEN EmployeesQuery(employees, adm.params)
                      ELSE ApplicationsQuery(applications, adm.params)
       IN  \E ok \in BOOLEAN, rows \in answers :
             adm' = IF ~ok THEN Ended(a, AdminError(500, ""))
                    ELSE IF employee
                    THEN Ended(a, [status |-> 200, count |-> Cardinality(rows),
                                   employees |-> rows])
                    ELSE Ended(a, [status |-> 200, count |-> Cardinality(rows),
                                   applications |-> rows])
    /\ TablesKept
    /\ OthersIdle

\* admin.py:148-156 and admin.py:220-228: the profile query of get_employer and
\* get_employee; .single() answers with the row, and the handler answers 404
\* to an answer without data
AdminGetProfile ==
    /\ adm.pc = "handler"
    /\ adm.route \in { "get_employer", "get_employee" }
    /\ LET employer == adm.route = "get_employer"
           a == Called(adm, IF employer THEN "read employers" ELSE "read employees")
           found == { e \in IF employer THEN employers ELSE employees
                        : e.id = adm.path_id }
       IN  \E q \in { "row", "empty", "raise" } :
             /\ q = "row" => found # {}
             /\ q = "empty" => found = {}
             /\ adm' = CASE q = "raise" -> Ended(a, AdminError(500, ""))
                         [] q = "empty" ->
                              Ended(a, AdminError(404, IF employer THEN "Employer not found."
                                                       ELSE "Employee not found."))
                         [] OTHER ->
                              [a EXCEPT !.pc = "related",
                                        !.data = << CHOOSE e \in found : TRUE >>]
    /\ TablesKept
    /\ OthersIdle

\* admin.py:158-172 and admin.py:230-244: the employer's jobs, or the
\* applications made with the employee's email
AdminGetRelated ==
    /\ adm.pc = "related"
    /\ LET employer == adm.route = "get_employer"
           a == Called(adm, IF employer THEN "read jobs" ELSE "read job_applications")
       IN  \E ok \in BOOLEAN :
             adm' = IF ~ok THEN Ended(a, AdminError(500, ""))
                    ELSE IF employer
                    THEN Ended(a, [status |-> 200, employer |-> adm.data[1],
                                   jobs |-> { j \in jobs : j.employer_id = adm.path_id }])
                    ELSE Ended(a, [status |-> 200, employee |-> adm.data[1],
                                   applications |->
                                      { x \in applications : x.email = adm.data[1].email }])
    /\ TablesKept
    /\ OthersIdle

\* .update(updates).eq("id", id): the table with the text field of the
\* matching row set to the value of the body
UpdateRow(tbl, id, field, value) ==
    { IF x.id = id THEN [x EXCEPT ![field] = value] ELSE x : x \in tbl }

\* the text field the modelled body of each update route sets
UpdatedField(route) ==
    CASE route = "update_employer" -> "company_name"
      [] route = "update_employee" -> "full_name"
      [] OTHER -> "title"

\* admin.py:178-191, admin.py:250-263 and admin.py:337-350: update_employer,
\* update_employee and admin_update_job
AdminUpdate ==
    /\ adm.pc = "handler"
    /\ adm.route \in { "update_employer", "update_employee", "admin_update_job" }
    /\ LET tbl == CASE adm.route = "update_employer" -> employers
                    [] adm.route = "update_employee" -> employees
                    [] OTHER -> jobs
           op == CASE adm.route = "update_employer" -> "update employers"
                   [] adm.route = "update_employee" -> "update employees"
                   [] OTHER -> "update jobs"
           missing == CASE adm.route = "update_employer" -> "Employer not found."
                        [] adm.route = "update_employee" -> "Employee not found."
                        [] OTHER -> "Job not found."
           a == Called(adm, op)
           new == IF adm.params.body = None THEN tbl
                  ELSE UpdateRow(tbl, adm.path_id, UpdatedField(adm.route),
                                 adm.params.body[1])
           matched == { x \in new : x.id = adm.path_id }
       IN  IF adm.params.body = None
           THEN /\ adm' = Ended(adm, AdminError(422, "No fields provided to update."))
                /\ TablesKept
           ELSE \E ok \in BOOLEAN :
                  /\ adm' = IF ~ok THEN Ended(a, AdminError(500, ""))
                            ELSE IF matched = {} THEN Ended(a, AdminError(404, missing))
                            ELSE Ended(a, [status |-> 200,
                                           updated |-> CHOOSE x \in matched : TRUE])
                  /\ employers' = IF ok /\ adm.route = "update_employer" THEN new
                                  ELSE employers
                  /\ employees' = IF ok /\ adm.route = "update_employee" THEN new
                                  ELSE employees
                  /\ jobs' = IF ok /\ adm.route = "admin_update_job" THEN new ELSE jobs
                  /\ UNCHANGED << applications, auth_users >>
    /\ OthersIdle

\* .delete().eq("job_id", job_id) on job_applications
DeleteApplicationsOf(apps, job_id) == { a \in apps : a.job_id # job_id }

\* .delete().eq("id", job_id) on jobs
DeleteJobRow(tbl, job_id) == { j \in tbl : j.id # job_id }

\* job_id REFERENCES jobs(id) without the cascade
OnDeleteNothing(apps, tbl) == apps

\* main.py:485  job_id uuid NOT NULL REFERENCES jobs(id) ON DELETE CASCADE:
\* the applications left once the jobs table is tbl
OnDeleteCascade(apps, tbl) == { a \in apps : JobExists(tbl, a.job_id) }

\* admin.py:278-279: delete_user reads the jobs of the user
AdminDeleteUserJobs ==
    /\ adm.pc = "handler"
    /\ adm.route = "delete_user"
    /\ LET a == Called(adm, "read jobs")
           mine == { j \in jobs : j.employer_id = adm.path_id }
       IN  \E ok \in BOOLEAN :
             adm' = IF ~ok THEN Ended(a, AdminError(500, "Failed to delete user: "))
                    ELSE [a EXCEPT !.pc = IF mine = {} THEN "du_jobs" ELSE "du_apps",
                                   !.todo = mine]
    /\ TablesKept
    /\ OthersIdle

\* admin.py:280-281: the delete of the applications of one of those jobs
AdminDeleteUserApps ==
    /\ adm.pc = "du_apps"
    /\ LET a == Called(adm, "delete job_applications")
       IN  \E j \in adm.todo, ok \in BOOLEAN :
             /\ applications' = IF ok THEN DeleteApplicationsOf(applications, j.id)
                                 ELSE applications
             /\ adm' = IF ~ok THEN Ended(a, AdminError(500, "Failed to delete user: "))
                       ELSE [a EXCEPT !.todo = @ \ { j },
                                      !.pc = IF adm.todo = { j } THEN "du_jobs" ELSE @]
    /\ UNCHANGED << jobs, employers, employees, auth_users >>
    /\ OthersIdle

\* admin.py:282-289: the deletes of the user's jobs (cascaded by the store to
\* their applications), of the two profile rows and of the account, one call
\* per step
AdminDeleteUserRows ==
    /\ adm.pc \in { "du_jobs", "du_employers", "du_employees", "du_auth" }
    /\ LET op == CASE adm.pc = "du_jobs" -> "delete jobs"
                   [] adm.pc = "du_employers" -> "delete employers"
                   [] adm.pc = "du_employees" -> "delete employees"
                   [] OTHER -> "auth delete_user"
           next == CASE adm.pc = "du_jobs" -> "du_employers"
                     [] adm.pc = "du_employers" -> "du_employees"
                     [] adm.pc = "du_employees" -> "du_auth"
                     [] OTHER -> "done"
           a == Called(adm, op)
       IN  \E ok \in BOOLEAN :
             /\ adm' = IF ~ok THEN Ended(a, AdminError(500, "Failed to delete user: "))
                       ELSE IF next = "done" THEN Ended(a, [status |-> 200])
                       ELSE [a EXCEPT !.pc = next]
             /\ jobs' = IF ok /\ adm.pc = "du_jobs"
                        THEN { j \in jobs : j.employer_id # adm.path_id } ELSE jobs
             /\ applications' = OnDeleteCascade(applications, jobs')
             /\ employers' = IF ok /\ adm.pc = "du_employers"
                             THEN { e \in employers : e.id # adm.path_id } ELSE employers
             /\ employees' = IF ok /\ adm.pc = "du_employees"
                             THEN { e \in employees : e.id # adm.path_id } ELSE employees
             /\ auth_users' = IF ok /\ adm.pc = "du_auth"
                              THEN auth_users \ { AuthEmailOf(adm.path_id) }
                              ELSE auth_users
    /\ OthersIdle

\* admin.py:359-360 and admin.py:363-364: the delete of the job's applications
AdminDeleteApplications ==
    /\ adm.pc = "handler"
    /\ adm.route = "admin_delete_job"
    /\ LET a == Called(adm, "delete job_applications")
       IN  \E ok \in BOOLEAN :
             /\ applications' = IF ok THEN DeleteApplicationsOf(applications, adm.path_id)
                                 ELSE applications
             /\ adm' = IF ok THEN [a EXCEPT !.pc = "delete_job"]
                       ELSE Ended(a, AdminError(500, "Failed to delete job: "))
    /\ UNCHANGED << jobs, employers, employees, auth_users >>
    /\ UNCHANGED << postJobVars, ap, ga, reg, nb >>

\* admin.py:361-364: the delete of the job row, which the store cascades to
\* the applications that reference it
AdminDeleteJobRow ==
    /\ adm.pc = "delete_job"
    /\ LET a == Called(adm, "delete jobs")
       IN  \E ok \in BOOLEAN :
             /\ jobs' = IF ok THEN DeleteJobRow(jobs, adm.path_id) ELSE jobs
             /\ applications' = OnDeleteCascade(applications, jobs')
             /\ adm' = IF ok THEN Ended(a, [status |-> 200])
                       ELSE Ended(a, AdminError(500, "Failed to delete job: "))
    /\ UNCHANGED << employers, employees, auth_users >>
    /\ UNCHANGED << postJobVars, ap, ga, reg, nb >>

\* admin.py:399-405: admin_delete_application
AdminDeleteApplication ==
    /\ adm.pc = "handler"
    /\ adm.route = "admin_delete_application"
    /\ LET a == Called(adm, "delete job_applications")
       IN  \E ok \in BOOLEAN :
             /\ applications' = IF ok THEN { x \in applications : x.id # adm.path_id }
                                 ELSE applications
             /\ adm' = IF ok THEN Ended(a, [status |-> 200])
                       ELSE Ended(a, AdminError(500, ""))
    /\ UNCHANGED << jobs, employers, employees, auth_users >>
    /\ OthersIdle

\* admin.py:413-453: admin_global_search, one store call per step
SearchOps == << "read jobs", "read employers", "read employees" >>

AdminGlobalSearch ==
    /\ adm.pc = "handler"
    /\ adm.route = "admin_global_search"
    /\ LET k == Len(adm.data) + 1
           q == adm.params.search[1]
           answers ==
               CASE k = 1 -> Limit({ j \in jobs : ILike(Some(j.title), q) }, RecentLimit)
                 [] k = 2 -> Limit({ e \in employers : ILike(Some(e.company_name), q) },
                                   RecentLimit)
                 [] OTHER -> Limit({ e \in employees : ILike(Some(e.full_name), q) },
                                   RecentLimit)
           a == Called(adm, SearchOps[k])
       IN  \E ok \in BOOLEAN, res \in answers :
             adm' = IF ~ok THEN Ended(a, AdminError(500, ""))
                    ELSE IF k < Len(SearchOps)
                    THEN [a EXCEPT !.data = Append(@, res)]
                    ELSE Ended([a EXCEPT !.data = Append(@, res)],
                               [status |-> 200, query |-> q,
                                results |-> [jobs |-> adm.data[1],
                                             employers |-> adm.data[2],
                                             employees |-> res]])
    /\ TablesKept
    /\ OthersIdle

SpecAdminInit ==
    /\ IdlePostJob
    /\ AdminTables
    /\ adm \in UNION { { AdminRequest(rt, h, e, id, p)
                           : h \in AdminHeaders, e \in AdminEnvs,
                             id \in AdminPathIds(rt), p \in AdminParams(rt) }
                       : rt \in AdminRoutes }
    /\ ap = Idle
    /\ ga = Idle
    /\ reg = Idle
    /\ nb = Idle

SpecAdminNext ==
    \/ AdminGuard
    \/ AdminDashboard
    \/ AdminListRows
    \/ AdminCountRow
    \/ AdminListPlain
    \/ AdminGetProfile
    \/ AdminGetRelated
    \/ AdminUpdate
    \/ AdminDeleteUserJobs
    \/ AdminDeleteUserApps
    \/ AdminDeleteUserRows
    \/ AdminDeleteApplications
    \/ AdminDeleteJobRow
    \/ AdminDeleteApplication
    \/ AdminGlobalSearch

SpecAdmin == SpecAdminInit /\ [][SpecAdminNext]_vars

\* C16 as stated: a request to an admin route whose X-Admin-Key header is
\* missing or differs from ADMIN_SECRET_KEY is answered with 403 and makes no
\* operation on the store or the auth backend.
C16_Original ==
    (adm.pc = "done"
       /\ (adm.header = None \/ adm.header # Some(ADMIN_SECRET_KEY(adm.env))))
      => (adm.response.status = 403 /\ adm.ops = << >>)

\* what does hold for C16: a request whose header is missing or wrong makes no
\* call and changes no table, whatever the route
C16_NoOperationWithoutKey ==
    (adm.header = None \/ adm.header # Some(ADMIN_SECRET_KEY(adm.env)))
      => /\ adm.ops = << >>
         /\ adm.pc \in { "guard", "done" }
         /\ adm.pc = "done" => adm.response.status \in { 403, 422 }

----------------------------------------------------------------------------
(* admin_delete_job, with apply_to_job requests in flight *)

SpecDeleteJobInit ==
    /\ IdlePostJob
    /\ InitialTables
    /\ ap \in [ApplyRequests ->
                { [pc |-> "job", job_id |-> j, email |-> e,
                   dup_at_start |-> AppsOf(applications, j, e) # {},
                   job_q |-> "none", dup_q |-> "none", inserts |-> 0,
                   response |-> NoResponse] : j \in JobIds, e \in Emails }]
    /\ adm \in { AdminRequest("admin_delete_job", h, Some("s3cret"), "j1", DefaultParams)
                 : h \in { Some("wrong"), Some("s3cret") } }
    /\ ga = Idle
    /\ auth_users = {}
    /\ employers = {}
    /\ employees = {}
    /\ reg = Idle
    /\ nb = Idle

\* the apply_to_job steps leave the admin request alone
ApplyStep ==
    /\ \E r \in ApplyRequests : ApplyCheckJob(r) \/ ApplyCheckDup(r) \/ ApplyInsert(r)
    /\ UNCHANGED adm

SpecDeleteJobNext ==
    AdminGuard \/ AdminDeleteApplications \/ AdminDeleteJobRow \/ ApplyStep

SpecDeleteJob == SpecDeleteJobInit /\ [][SpecDeleteJobNext]_vars

\* C20: once admin_delete_job(job_id) has returned success, the store holds
\* no job row with that id and no job_applications row with that job_id,
\* whatever apply_to_job requests run before, during and after it.
C20_JobAndApplicationsGone ==
    (adm.pc = "done" /\ adm.response.status = 200)
      => /\ ~JobExists(jobs, adm.path_id)
         /\ \A a \in applications : a.job_id # adm.path_id

\* C20 witness: the delete succeeded for a job to which an application had
\* been accepted and another request had passed the job check before the
\* delete and made its insert after it.
C20_Witness ==
    /\ adm.pc = "done"
    /\ adm.response.status = 200
    /\ \E r1, r2 \in ApplyRequests :
         /\ ap[r1].job_id = adm.path_id
         /\ ap[r1].response.status = 201
         /\ ap[r2].job_id = adm.path_id
         /\ ap[r2].job_q = "ok"
         /\ ap[r2].inserts = 1
         /\ ap[r2].response.status = 500

====
